---- MODULE Spec2Model ----
(***************************************************************************)
(* A model of package qq (qq.go): the Log entry point, the recovery of     *)
(* argument names from the caller's source file, the formatter, the        *)
(* grouping timer and the open/write/close cycle of the log file.          *)
(***************************************************************************)
EXTENDS Integers, Sequences, FiniteSets, TLC

(***************************************************************************)
(* Bounds of the model.                                                    *)
(***************************************************************************)
\* the clock runs from 0 to MaxTime seconds
MaxTime == 2
\* number of Log invocations in a sequential run
MaxCalls == 2
\* number of runtime values handed to one Log invocation
MaxArgs == 2
\* length of the names and values lists handed to formatArgs directly
MaxLen == 3
\* goroutines calling Log concurrently: 1..NumThreads
NumThreads == 2

\* timer.Reset(2 * time.Second)
GroupSeconds == 2

(***************************************************************************)
(* ANSI colors (qq.go 17-24).  The escape byte is written ESC.             *)
(***************************************************************************)
bold == "ESC[1m"
cyan == "ESC[36m"
endColor == "ESC[0m"

\* colorize returns the text wrapped in the color's escape codes
colorize(text, c) == c \o text \o endColor

(***************************************************************************)
(* Runtime values.  A value carries its dynamic type and its text; the two *)
(* verbs the package prints with differ on strings.                        *)
(***************************************************************************)
IntVal(s) == [t |-> "int", s |-> s]
StrVal(s) == [t |-> "string", s |-> s]

\* fmt.Sprintf("%#v", v): Go syntax, a string is quoted
GoSyntax(v) == IF v.t = "string" THEN "\"" \o v.s \o "\"" ELSE v.s

\* the %v verb Println applies to each operand: a string is printed bare
Sprint(v) == v.s

(***************************************************************************)
(* Syntax trees as go/parser builds them.  Every node has a kind; a call   *)
(* carries the lines of its first and last token.  obj is the Kind of the  *)
(* object the parser resolved an identifier to inside the file, "nil" when  *)
(* it resolved none (universe names, imports, names of other files).       *)
(***************************************************************************)
Ident(n, o) == [kind |-> "Ident", name |-> n, obj |-> o]
BasicLit(v) == [kind |-> "BasicLit", value |-> v]
BinaryExpr(x, op, y) == [kind |-> "BinaryExpr", x |-> x, op |-> op, y |-> y]
CallExpr(fun, args, pos, end) == [kind |-> "CallExpr", fun |-> fun, args |-> args, pos |-> pos, end |-> end]
SelectorExpr(x, sel) == [kind |-> "SelectorExpr", x |-> x, sel |-> sel]
IndexExpr(x, i) == [kind |-> "IndexExpr", x |-> x, index |-> i]
KeyValueExpr(k, v) == [kind |-> "KeyValueExpr", key |-> k, value |-> v]
ParenExpr(x) == [kind |-> "ParenExpr", x |-> x]
SliceExpr(x, lo, hi) == [kind |-> "SliceExpr", x |-> x, low |-> lo, high |-> hi]
TypeAssertExpr(x, t) == [kind |-> "TypeAssertExpr", x |-> x, type |-> t]
UnaryExpr(op, x) == [kind |-> "UnaryExpr", op |-> op, x |-> x]
StarExpr(x) == [kind |-> "StarExpr", x |-> x]
CompositeLit(t, elts) == [kind |-> "CompositeLit", type |-> t, elts |-> elts]
File(exprs) == [kind |-> "File", exprs |-> exprs]

\* the children ast.Walk descends into, in its order
Children(n) ==
    CASE n.kind = "File" -> n.exprs
      [] n.kind = "CallExpr" -> <<n.fun>> \o n.args
      [] n.kind = "BinaryExpr" -> <<n.x, n.y>>
      [] n.kind = "SelectorExpr" -> <<n.x, n.sel>>
      [] n.kind = "IndexExpr" -> <<n.x, n.index>>
      [] n.kind = "KeyValueExpr" -> <<n.key, n.value>>
      [] n.kind = "ParenExpr" -> <<n.x>>
      [] n.kind = "SliceExpr" -> <<n.x, n.low, n.high>>
      [] n.kind = "TypeAssertExpr" -> <<n.x, n.type>>
      [] n.kind = "UnaryExpr" -> <<n.x>>
      [] n.kind = "StarExpr" -> <<n.x>>
      [] n.kind = "CompositeLit" -> <<n.type>> \o n.elts
      [] OTHER -> <<>>

RECURSIVE Fprint(_)
RECURSIVE FprintList(_)
\* printer.Fprint of an expression: the normalised source text
Fprint(n) ==
    CASE n.kind = "Ident" -> n.name
      [] n.kind = "BasicLit" -> n.value
      [] n.kind = "BinaryExpr" -> Fprint(n.x) \o " " \o n.op \o " " \o Fprint(n.y)
      [] n.kind = "CallExpr" -> Fprint(n.fun) \o "(" \o FprintList(n.args) \o ")"
      [] n.kind = "SelectorExpr" -> Fprint(n.x) \o "." \o Fprint(n.sel)
      [] n.kind = "IndexExpr" -> Fprint(n.x) \o "[" \o Fprint(n.index) \o "]"
      [] n.kind = "KeyValueExpr" -> Fprint(n.key) \o ": " \o Fprint(n.value)
      [] n.kind = "ParenExpr" -> "(" \o Fprint(n.x) \o ")"
      [] n.kind = "SliceExpr" -> Fprint(n.x) \o "[" \o Fprint(n.low) \o ":" \o Fprint(n.high) \o "]"
      [] n.kind = "TypeAssertExpr" -> Fprint(n.x) \o ".(" \o Fprint(n.type) \o ")"
      [] n.kind = "UnaryExpr" -> n.op \o Fprint(n.x)
      [] n.kind = "StarExpr" -> "*" \o Fprint(n.x)
      [] n.kind = "CompositeLit" -> Fprint(n.type) \o "{" \o FprintList(n.elts) \o "}"
      [] OTHER -> ""

\* a comma-separated expression list
FprintList(s) ==
    IF s = <<>> THEN ""
    ELSE IF Len(s) = 1 THEN Fprint(s[1])
    ELSE Fprint(s[1]) \o ", " \o FprintList(Tail(s))

\* exprToString returns the source text underlying the given ast.Expr
exprToString(arg) == Fprint(arg)

(***************************************************************************)
(* A call that returns a value or panics: [panic |-> FALSE, val |-> v] or  *)
(* [panic |-> TRUE, why |-> reason].                                       *)
(***************************************************************************)
Ret(v) == [panic |-> FALSE, val |-> v]
Panic(why) == [panic |-> TRUE, why |-> why]

CompoundKinds ==
    {"BinaryExpr", "CallExpr", "IndexExpr", "KeyValueExpr", "ParenExpr",
     "SliceExpr", "TypeAssertExpr", "UnaryExpr"}

\* argName: the source text of a variable or an expression, "" for the rest.
\* a.Obj.Kind dereferences a.Obj, which is nil for an unresolved identifier.
argName(arg) ==
    IF arg.kind = "Ident"
    THEN IF arg.obj = "nil" THEN Panic("nil pointer dereference")
         ELSE IF arg.obj = "Var" THEN Ret(arg.name)
         ELSE Ret("")
    ELSE IF arg.kind \in CompoundKinds THEN Ret(exprToString(arg))
    ELSE Ret("")

\* qqCall: the callee is a selector on the identifier qq
qqCall(n) ==
    /\ n.fun.kind = "SelectorExpr"
    /\ n.fun.x.kind = "Ident"
    /\ n.fun.x.name = "qq"

\* a slip: the line the call starts on, fset.Position(call.Pos()).Line
StartLine(call) == call.pos

\* fset.Position(call.End()).Line
EndLine(call) == call.end

RECURSIVE AppendNames(_, _)
\* for _, arg := range call.Args { names = append(names, argName(arg)) }
AppendNames(args, acc) ==
    IF acc.panic \/ args = <<>> THEN acc
    ELSE LET r == argName(Head(args))
         IN  IF r.panic THEN r
             ELSE AppendNames(Tail(args), Ret(Append(acc.val, r.val)))

\* the function literal argNames hands to ast.Inspect
Visit(n, line, acc) ==
    IF n.kind # "CallExpr" THEN acc
    ELSE IF EndLine(n) # line THEN acc
    ELSE IF ~qqCall(n) THEN acc
    ELSE AppendNames(n.args, acc)

RECURSIVE Inspect(_, _, _)
RECURSIVE InspectList(_, _, _)
\* ast.Inspect: the node, then its children in order (the visitor always
\* returns true); a panic in the visitor ends the walk
Inspect(n, line, acc) ==
    IF acc.panic THEN acc
    ELSE InspectList(Children(n), line, Visit(n, line, acc))

InspectList(ns, line, acc) ==
    IF acc.panic \/ ns = <<>> THEN acc
    ELSE InspectList(Tail(ns), line, Inspect(Head(ns), line, acc))

\* what parser.ParseFile returns for a file that does not parse
ParseError == [kind |-> "ParseError"]

\* argNames: [err |-> TRUE] when the file does not parse, otherwise the
\* names of the qq calls ending on the line (or the panic of the walk)
argNames(src, line) ==
    IF src.kind = "ParseError" THEN [err |-> TRUE, panic |-> FALSE]
    ELSE LET r == Inspect(src, line, Ret(<<>>))
         IN  IF r.panic THEN [err |-> FALSE, panic |-> TRUE, why |-> r.why]
             ELSE [err |-> FALSE, panic |-> FALSE, names |-> r.val]

RECURSIVE FormatFrom(_, _, _, _)
\* the loop of formatArgs from index i (1-based here) on
FormatFrom(names, values, i, formatted) ==
    IF i > Len(values) THEN Ret(formatted)
    ELSE IF i > Len(names) THEN Panic("index out of range")
    ELSE LET val == colorize(GoSyntax(values[i]), cyan)
         IN  IF names[i] = ""
             THEN FormatFrom(names, values, i + 1, Append(formatted, StrVal(val)))
             ELSE FormatFrom(names, values, i + 1,
                             Append(formatted, StrVal(colorize(names[i], bold) \o "=" \o val)))

\* a slip: the branch for literals left out, every entry gets "name="
formatArgsAlwaysNamed(names, values) ==
    IF Len(names) < Len(values) THEN Panic("index out of range")
    ELSE Ret([i \in 1..Len(values) |->
                StrVal(colorize(names[i], bold) \o "=" \o colorize(GoSyntax(values[i]), cyan))])

\* formatArgs turns the arguments into pretty-printed strings
formatArgs(names, values) == FormatFrom(names, values, 1, <<>>)

\* prefix: "[HH:MM:SS shortFile:line callerName] " at clock time t
prefix(fn, file, line, t) ==
    "[" \o ToString(t) \o " " \o file[Len(file)] \o ":" \o ToString(line) \o " " \o fn \o "] "

NL == "\n"

\* logger.Println(a...) on the prefix p: the prefix, then each operand printed
\* with %v; Println puts a blank between operands and ends the line
Println(p, a) == [prefix |-> p, args |-> [i \in DOMAIN a |-> Sprint(a[i])]]

(***************************************************************************)
(* Inputs: the source files a call site may lie in, the caller's frame and *)
(* the runtime values.                                                     *)
(***************************************************************************)
QQ(name) == SelectorExpr(Ident("qq", "nil"), Ident(name, "nil"))

\* 1: qq.Log(ip, 5432)        2: fmt.Println(ip)
SrcSimple ==
    File(<<CallExpr(QQ("Log"), <<Ident("ip", "Var"), BasicLit("5432")>>, 1, 1),
           CallExpr(SelectorExpr(Ident("fmt", "nil"), Ident("Println", "nil")),
                    <<Ident("ip", "Var")>>, 2, 2)>>)

\* 1: qq.Log(a+b,             2:     f(x))
SrcMulti ==
    File(<<CallExpr(QQ("Log"),
                    <<BinaryExpr(Ident("a", "Var"), "+", Ident("b", "Var")),
                      CallExpr(Ident("f", "Fun"), <<Ident("x", "Var")>>, 2, 2)>>, 1, 2)>>)

\* 1: qq.Log(a); qq.Log(b)    2: qq.Log(qq.Str(c))
SrcTwo ==
    File(<<CallExpr(QQ("Log"), <<Ident("a", "Var")>>, 1, 1),
           CallExpr(QQ("Log"), <<Ident("b", "Var")>>, 1, 1),
           CallExpr(QQ("Log"), <<CallExpr(QQ("Str"), <<Ident("c", "Var")>>, 2, 2)>>, 2, 2)>>)

\* 1: qq.Log(xs...)           2: qq.Log()
SrcSpread ==
    File(<<CallExpr(QQ("Log"), <<Ident("xs", "Var")>>, 1, 1),
           CallExpr(QQ("Log"), <<>>, 2, 2)>>)

\* 1: qq.Log(true)            2: qq.Log(Pi, x)      (const Pi, var x)
SrcUnresolved ==
    File(<<CallExpr(QQ("Log"), <<Ident("true", "nil")>>, 1, 1),
           CallExpr(QQ("Log"), <<Ident("Pi", "Con"), Ident("x", "Var")>>, 2, 2)>>)

\* 1: q.Log(x)                2: log(x)             (import q "qq"; log := qq.Log)
SrcAlias ==
    File(<<CallExpr(SelectorExpr(Ident("q", "nil"), Ident("Log", "nil")),
                    <<Ident("x", "Var")>>, 1, 1),
           CallExpr(Ident("log", "Var"), <<Ident("x", "Var")>>, 2, 2)>>)

Sources == {SrcSimple, SrcMulti, SrcTwo, SrcSpread, SrcUnresolved, SrcAlias, ParseError}

\* the lines of these files
Lines == {1, 2}

\* the frame runtime.Caller(1) reports
CallerFile == <<"app", "main.go">>
CallerFunc == "main.main"

SeqsUpTo(S, n) == UNION {[1..k -> S] : k \in 0..n}

LogValues == {IntVal("443"), StrVal("1.2.3.4")}

(***************************************************************************)
(* State.                                                                  *)
(***************************************************************************)
VARIABLES
    now,           \* the clock, in seconds
    timerWhen,     \* timer: the time it fires at
    loggerPrefix,  \* logger's prefix, a sequence of string pieces
    loggerOut,     \* logger's output: "stderr" or a file handle
    open,          \* the handles of qq.log that are open
    nextFd,        \* the next handle os.OpenFile returns
    logLen,        \* the number of lines of qq.log
    logTail,       \* the last line of qq.log
    calls,         \* Log invocations begun
    crashed,       \* a panic has ended the process
    last,          \* what the most recent Log invocation did
    prevAt,        \* the time the invocation before it began at, -1 if none
    th,            \* the goroutines inside Log
    fnCall,        \* a direct call of formatArgs, argNames or argName
    fnRet          \* and what it returned

vars == <<now, timerWhen, loggerPrefix, loggerOut, open, nextFd, logLen, logTail,
          calls, crashed, last, prevAt, th, fnCall, fnRet>>

Threads == 1..NumThreads

NoCall == [fn |-> "none"]
NoLine == [prefix |-> <<>>, args |-> <<>>, none |-> TRUE]
Idle == [pc |-> "idle"]

\* var logger = log.New(os.Stderr, "", 0); timer = time.NewTimer(0)
InitLog ==
    /\ now = 0
    /\ timerWhen = 0
    /\ loggerPrefix = <<>>
    /\ loggerOut = "stderr"
    /\ open = {}
    /\ nextFd = 1
    /\ logLen = 0
    /\ logTail = NoLine
    /\ calls = 0
    /\ crashed = FALSE
    /\ last = [outcome |-> "none"]
    /\ prevAt = -1
    /\ th = [t \in Threads |-> Idle]

Init ==
    /\ InitLog
    /\ fnCall = NoCall
    /\ fnRet = NoCall

\* timer.Reset(d): whether the timer was running, and the new firing time.
\* The timer counts as expired from the second it fires at on.
TimerReset(t, when, d) == [wasRunning |-> t < when, when |-> t + d]

\* os.OpenFile(LogFile, O_CREATE|O_APPEND|O_WRONLY, 0600) succeeded: handle f
OpenFile(handles, f) == handles \cup {f}

\* a slip: the deferred Close left out
CloseFileLeft(handles, f) == handles

\* f.Close()
CloseFile(handles, f) == handles \ {f}

\* a write of one line through handle out: appended to qq.log if the handle
\* is an open handle of it, an error (which Println drops) otherwise.  The
\* file is append-only and never read: its length and last line stand for it.
Write(file, handles, out, ln) ==
    IF out \in handles THEN [len |-> file.len + 1, tail |-> ln] ELSE file

\* a slip: the parse error treated as fatal instead of skipped
NamedParseErrorFatal(ok, src, line, a) ==
    IF ~ok THEN Ret(a)
    ELSE LET an == argNames(src, line)
         IN  IF an.err THEN Panic("parse")
             ELSE IF an.panic THEN Panic(an.why)
             ELSE formatArgs(an.names, a)

\* the arguments Log goes on with after lines 43-51, or the panic
Named(ok, src, line, a) ==
    IF ~ok THEN Ret(a)
    ELSE LET an == argNames(src, line)
         IN  IF an.err THEN Ret(a)
             ELSE IF an.panic THEN Panic(an.why)
             ELSE formatArgs(an.names, a)

\* the prefix after lines 44-51
CallerPrefix(ok, fn, file, line, t, old) ==
    IF ok THEN <<prefix(fn, file, line, t)>> ELSE old

\* the prefix after lines 54-56
GroupPrefix(wasRunning, p) == IF ~wasRunning THEN <<NL>> \o p ELSE p

\* one Log invocation, run to its end without interruption
Log(ok, src, line, a, openOk) ==
    LET named == Named(ok, src, line, a)
        p1 == CallerPrefix(ok, CallerFunc, CallerFile, line, now, loggerPrefix)
        r == TimerReset(now, timerWhen, GroupSeconds)
        p2 == GroupPrefix(r.wasRunning, p1)
        f == nextFd
        opened == OpenFile(open, f)
        ln == Println(p2, named.val)
        written == Write([len |-> logLen, tail |-> logTail], opened, f, ln)
        rec == [ok |-> ok, src |-> src, line |-> line, values |-> a, at |-> now,
                lenBefore |-> logLen]
    IN  /\ ~crashed
        /\ calls < MaxCalls
        /\ \A t \in Threads : th[t].pc = "idle"
        /\ calls' = calls + 1
        /\ prevAt' = IF last.outcome = "none" THEN -1 ELSE last.at
        /\ UNCHANGED <<now, th, fnCall, fnRet>>
        /\ IF named.panic
           THEN /\ crashed' = TRUE
                /\ last' = rec @@ [outcome |-> "panic", why |-> named.why]
                /\ UNCHANGED <<timerWhen, loggerPrefix, loggerOut, open, nextFd, logLen, logTail>>
           ELSE IF ~openOk
           THEN /\ crashed' = TRUE
                /\ timerWhen' = r.when
                /\ loggerPrefix' = p2
                /\ last' = rec @@ [outcome |-> "panic", why |-> "open"]
                /\ UNCHANGED <<loggerOut, open, nextFd, logLen, logTail>>
           ELSE /\ crashed' = FALSE
                /\ timerWhen' = r.when
                /\ loggerPrefix' = p2
                /\ loggerOut' = f
                /\ nextFd' = f + 1
                /\ logLen' = written.len
                /\ logTail' = written.tail
                /\ open' = CloseFile(opened, f)
                /\ last' = rec @@ [outcome |-> "returned", fd |-> f,
                                   wroteTo |-> loggerOut', wroteOpen |-> loggerOut' \in opened]

\* a second passes
Tick ==
    /\ now < MaxTime
    /\ now' = now + 1
    /\ UNCHANGED <<timerWhen, loggerPrefix, loggerOut, open, nextFd, logLen, logTail,
                   calls, crashed, last, prevAt, th, fnCall, fnRet>>

\* runtime.Caller(1) reports no frame: file "" and line 0
NoSource == [kind |-> "None"]

\* Log called from a call site the runtime reports
CallLog ==
    \E src \in Sources, line \in Lines, a \in SeqsUpTo(LogValues, MaxArgs), openOk \in BOOLEAN :
        Log(TRUE, src, line, a, openOk)

\* Log called where the runtime reports no caller
CallLogNoCaller ==
    \E a \in SeqsUpTo(LogValues, MaxArgs), openOk \in BOOLEAN :
        Log(FALSE, NoSource, 0, a, openOk)

Next == CallLog \/ CallLogNoCaller \/ Tick

Spec == Init /\ [][Next]_vars

(***************************************************************************)
(* The pure functions called directly, on inputs drawn from bounded sets.  *)
(***************************************************************************)
\* 1: fmt.Println(qq.Log(a), b)    2: (qq).Log(c); s.qq.Log(d)
SrcNested ==
    File(<<CallExpr(SelectorExpr(Ident("fmt", "nil"), Ident("Println", "nil")),
                    <<CallExpr(QQ("Log"), <<Ident("a", "Var")>>, 1, 1), Ident("b", "Var")>>, 1, 1),
           CallExpr(SelectorExpr(ParenExpr(Ident("qq", "nil")), Ident("Log", "nil")),
                    <<Ident("c", "Var")>>, 2, 2),
           CallExpr(SelectorExpr(SelectorExpr(Ident("s", "Var"), Ident("qq", "nil")),
                                 Ident("Log", "nil")),
                    <<Ident("d", "Var")>>, 2, 2)>>)

FnSources == Sources \cup {SrcNested}

FnValues == LogValues \cup {IntVal("5432")}

FnNames == {"", "ip", "port"}

\* argument nodes of every kind argName tells apart
ArgNodes ==
    LET a == Ident("a", "Var")
        b == Ident("b", "Var")
    IN  {a, Ident("Pi", "Con"), Ident("T", "Typ"), Ident("f", "Fun"),
         Ident("true", "nil"), Ident("fmt", "nil"),
         BasicLit("5432"), BasicLit("\"s\""),
         BinaryExpr(a, "+", b),
         CallExpr(Ident("f", "Fun"), <<a, BasicLit("1")>>, 1, 1),
         IndexExpr(a, BasicLit("0")),
         KeyValueExpr(a, b),
         ParenExpr(BinaryExpr(a, "*", b)),
         SliceExpr(a, BasicLit("1"), b),
         TypeAssertExpr(a, Ident("int", "nil")),
         UnaryExpr("-", a),
         SelectorExpr(a, Ident("field", "nil")),
         StarExpr(a),
         CompositeLit(Ident("T", "Typ"), <<a>>)}

FnCalls ==
    {[fn |-> "formatArgs", names |-> ns, values |-> vs] :
        ns \in SeqsUpTo(FnNames, MaxLen), vs \in SeqsUpTo(FnValues, MaxLen)}
    \cup {[fn |-> "argNames", src |-> src, line |-> line] : src \in FnSources, line \in Lines}
    \cup {[fn |-> "argName", arg |-> arg] : arg \in ArgNodes}

InitFn ==
    /\ InitLog
    /\ fnCall \in FnCalls
    /\ fnRet = NoCall

UnchangedLog ==
    UNCHANGED <<now, timerWhen, loggerPrefix, loggerOut, open, nextFd, logLen, logTail,
                calls, crashed, last, prevAt, th>>

CallFormatArgs ==
    /\ fnCall.fn = "formatArgs"
    /\ fnRet = NoCall
    /\ fnRet' = formatArgs(fnCall.names, fnCall.values)
    /\ UNCHANGED fnCall
    /\ UnchangedLog

CallArgNames ==
    /\ fnCall.fn = "argNames"
    /\ fnRet = NoCall
    /\ fnRet' = argNames(fnCall.src, fnCall.line)
    /\ UNCHANGED fnCall
    /\ UnchangedLog

CallArgName ==
    /\ fnCall.fn = "argName"
    /\ fnRet = NoCall
    /\ fnRet' = argName(fnCall.arg)
    /\ UNCHANGED fnCall
    /\ UnchangedLog

NextFn == CallFormatArgs \/ CallArgNames \/ CallArgName

SpecFn == InitFn /\ [][NextFn]_vars

(***************************************************************************)
(* Log called from several goroutines.  logger and timer guard each of     *)
(* their methods with their own lock, so every method call is one step;    *)
(* Log itself holds no lock across them.                                   *)
(***************************************************************************)
ConcSources == {SrcSimple, SrcUnresolved, ParseError}

ConcValues == SeqsUpTo(LogValues, 1)

UnchangedFn == UNCHANGED <<fnCall, fnRet>>

\* lines 43-51: the caller's frame, argNames, formatArgs (all local), then
\* logger.SetPrefix
Begin(t, ok, src, line, a) ==
    LET named == Named(ok, src, line, a)
    IN  /\ ~crashed
        /\ th[t].pc \in {"idle", "done"}
        /\ calls < MaxCalls
        /\ calls' = calls + 1
        /\ IF named.panic
           THEN /\ crashed' = TRUE
                /\ th' = [th EXCEPT ![t] = [pc |-> "panicked", why |-> named.why]]
                /\ UNCHANGED loggerPrefix
           ELSE /\ th' = [th EXCEPT ![t] = [pc |-> "reset", a |-> named.val]]
                /\ loggerPrefix' = CallerPrefix(ok, CallerFunc, CallerFile, line, now, loggerPrefix)
                /\ UNCHANGED crashed
        /\ UNCHANGED <<now, timerWhen, loggerOut, open, nextFd, logLen, logTail, last, prevAt>>
        /\ UnchangedFn

\* line 54: timer.Reset(2 * time.Second)
Reset(t) ==
    LET r == TimerReset(now, timerWhen, GroupSeconds)
    IN  /\ ~crashed
        /\ th[t].pc = "reset"
        /\ timerWhen' = r.when
        /\ th' = [th EXCEPT ![t].pc = IF r.wasRunning THEN "open" ELSE "prefix"]
        /\ UNCHANGED <<now, loggerPrefix, loggerOut, open, nextFd, logLen, logTail,
                       calls, crashed, last, prevAt>>
        /\ UnchangedFn

\* line 55: logger.Prefix()
GetPrefix(t) ==
    /\ ~crashed
    /\ th[t].pc = "prefix"
    /\ th' = [th EXCEPT ![t] = [pc |-> "setprefix", a |-> th[t].a, p |-> loggerPrefix]]
    /\ UNCHANGED <<now, timerWhen, loggerPrefix, loggerOut, open, nextFd, logLen, logTail,
                   calls, crashed, last, prevAt>>
    /\ UnchangedFn

\* line 55: logger.SetPrefix("\n" + ...)
SetPrefix(t) ==
    /\ ~crashed
    /\ th[t].pc = "setprefix"
    /\ loggerPrefix' = GroupPrefix(FALSE, th[t].p)
    /\ th' = [th EXCEPT ![t] = [pc |-> "open", a |-> th[t].a]]
    /\ UNCHANGED <<now, timerWhen, loggerOut, open, nextFd, logLen, logTail,
                   calls, crashed, last, prevAt>>
    /\ UnchangedFn

\* line 58: f := openLog(), which panics when the open fails
Open(t, openOk) ==
    /\ ~crashed
    /\ th[t].pc = "open"
    /\ IF openOk
       THEN /\ open' = OpenFile(open, nextFd)
            /\ nextFd' = nextFd + 1
            /\ th' = [th EXCEPT ![t] = [pc |-> "setoutput", a |-> th[t].a, f |-> nextFd]]
            /\ UNCHANGED crashed
       ELSE /\ crashed' = TRUE
            /\ th' = [th EXCEPT ![t] = [pc |-> "panicked", why |-> "open"]]
            /\ UNCHANGED <<open, nextFd>>
    /\ UNCHANGED <<now, timerWhen, loggerPrefix, loggerOut, logLen, logTail, calls, last, prevAt>>
    /\ UnchangedFn

\* line 60: logger.SetOutput(f)
SetOutput(t) ==
    /\ ~crashed
    /\ th[t].pc = "setoutput"
    /\ loggerOut' = th[t].f
    /\ th' = [th EXCEPT ![t].pc = "println"]
    /\ UNCHANGED <<now, timerWhen, loggerPrefix, open, nextFd, logLen, logTail,
                   calls, crashed, last, prevAt>>
    /\ UnchangedFn

\* line 61: logger.Println(a...), one write to the logger's current output
DoPrintln(t) ==
    LET written == Write([len |-> logLen, tail |-> logTail], open, loggerOut,
                         Println(loggerPrefix, th[t].a))
    IN  /\ ~crashed
        /\ th[t].pc = "println"
        /\ logLen' = written.len
        /\ logTail' = written.tail
        /\ th' = [th EXCEPT ![t] = [pc |-> "close", a |-> th[t].a, f |-> th[t].f,
                                    wroteTo |-> loggerOut, lost |-> logLen' = logLen]]
        /\ UNCHANGED <<now, timerWhen, loggerPrefix, loggerOut, open, nextFd,
                       calls, crashed, last, prevAt>>
        /\ UnchangedFn

\* line 59: the deferred f.Close()
Close(t) ==
    /\ ~crashed
    /\ th[t].pc = "close"
    /\ open' = CloseFile(open, th[t].f)
    /\ th' = [th EXCEPT ![t].pc = "done"]
    /\ UNCHANGED <<now, timerWhen, loggerPrefix, loggerOut, nextFd, logLen, logTail,
                   calls, crashed, last, prevAt>>
    /\ UnchangedFn

NextConc ==
    \/ \E t \in Threads, src \in ConcSources, a \in ConcValues : Begin(t, TRUE, src, 1, a)
    \/ \E t \in Threads, a \in ConcValues : Begin(t, FALSE, NoSource, 0, a)
    \/ \E t \in Threads : Reset(t)
    \/ \E t \in Threads : GetPrefix(t)
    \/ \E t \in Threads : SetPrefix(t)
    \/ \E t \in Threads, openOk \in BOOLEAN : Open(t, openOk)
    \/ \E t \in Threads : SetOutput(t)
    \/ \E t \in Threads : DoPrintln(t)
    \/ \E t \in Threads : Close(t)
    \/ Tick

SpecConc == Init /\ [][NextConc]_vars

(***************************************************************************)
(* Properties.                                                             *)
(***************************************************************************)
\* the most recent sequential invocation had caller information and its
\* source file parsed
LastParsed == last.outcome # "none" /\ last.ok /\ last.src.kind = "File"

\* the line's entries are the values, in order, none with a name segment
\* (printed plainly, or as formatArgs prints a value without a name)
AllUnnamed(ln, values) ==
    /\ Len(ln.args) = Len(values)
    /\ \A i \in 1..Len(values) :
          ln.args[i] \in {Sprint(values[i]), colorize(GoSyntax(values[i]), cyan)}

\* the invocation ended as a call whose names were discarded would: it
\* aborted only on the open, and wrote all its values unnamed
DegradedToUnnamed ==
    /\ last.outcome = "panic" => last.why = "open"
    /\ last.outcome = "returned" =>
          /\ logLen = last.lenBefore + 1
          /\ AllUnnamed(logTail, last.values)

RECURSIVE PreOrder(_)
RECURSIVE PreOrderList(_)
\* the nodes of a tree, each before its children
PreOrder(n) == <<n>> \o PreOrderList(Children(n))

PreOrderList(ns) == IF ns = <<>> THEN <<>> ELSE PreOrder(Head(ns)) \o PreOrderList(Tail(ns))

IsQQCallEndingOn(n, line) ==
    /\ n.kind = "CallExpr"
    /\ n.end = line
    /\ n.fun.kind = "SelectorExpr"
    /\ n.fun.x = Ident("qq", "nil")

RECURSIVE ArgsOf(_)
\* the arguments of a list of calls, call after call
ArgsOf(cs) == IF cs = <<>> THEN <<>> ELSE Head(cs).args \o ArgsOf(Tail(cs))

\* the arguments of the qq calls that end on the line, in pre-order
QualifyingArgs(src, line) ==
    ArgsOf(SelectSeq(PreOrder(src), LAMBDA n : IsQQCallEndingOn(n, line)))

\* C1: when the file parses and argNames extracts a number of names other
\* than the number of values, the names are discarded: the invocation does
\* not abort on a missing index and writes every value unnamed.
C1_MismatchDiscardsNames ==
    (LastParsed /\ ~argNames(last.src, last.line).panic
       /\ Len(argNames(last.src, last.line).names) # Len(last.values))
    => DegradedToUnnamed

\* C2: when the file parses and no qq call ends on the reported line, the
\* invocation writes one line with all its values, in order, unnamed, as on
\* a parse failure.
C2_NoMatchLikeParseFailure ==
    (LastParsed
       /\ \A i \in 1..Len(PreOrder(last.src)) :
             ~IsQQCallEndingOn(PreOrder(last.src)[i], last.line))
    => DegradedToUnnamed

\* C3: when the source file does not parse, the invocation appends exactly
\* one line carrying its values as they are, in order, without names, and
\* the parse error does not abort it (only a failed open does).
C3_ParseFailureStillLogs ==
    (last.outcome # "none" /\ last.ok /\ last.src = ParseError)
    => /\ last.outcome = "panic" => last.why = "open"
       /\ last.outcome = "returned" =>
             /\ logLen = last.lenBefore + 1
             /\ logTail.args = [i \in 1..Len(last.values) |-> Sprint(last.values[i])]

C3_Witness ==
    /\ last.outcome = "returned"
    /\ last.ok
    /\ last.src = ParseError
    /\ last.values = <<IntVal("443"), StrVal("1.2.3.4")>>
    /\ logTail.args = <<"443", "1.2.3.4">>

\* C4: an invocation aborts if and only if the open of the log file fails.
C4_PanicOnlyOnOpenFailure ==
    last.outcome = "panic" => last.why = "open"

\* C5: for names and values of one length N, formatArgs returns N entries,
\* entry i being bold names[i], "=", cyan values[i] when names[i] is not
\* empty and cyan values[i] alone when it is; (ip, port, "") with
\* ("1.2.3.4", 443, 5432) gives ip="1.2.3.4", port=443, 5432.
C5_FormatArgsPairsInOrder ==
    (fnCall.fn = "formatArgs" /\ fnRet # NoCall /\ Len(fnCall.names) = Len(fnCall.values))
    => /\ ~fnRet.panic
       /\ Len(fnRet.val) = Len(fnCall.values)
       /\ \A i \in 1..Len(fnCall.values) :
             fnRet.val[i] =
                StrVal(IF fnCall.names[i] = ""
                       THEN cyan \o GoSyntax(fnCall.values[i]) \o endColor
                       ELSE bold \o fnCall.names[i] \o endColor \o "="
                            \o cyan \o GoSyntax(fnCall.values[i]) \o endColor)
       /\ (/\ fnCall.names = <<"ip", "port", "">>
           /\ fnCall.values = <<StrVal("1.2.3.4"), IntVal("443"), IntVal("5432")>>)
          => fnRet.val = <<StrVal("ESC[1mipESC[0m=ESC[36m\"1.2.3.4\"ESC[0m"),
                           StrVal("ESC[1mportESC[0m=ESC[36m443ESC[0m"),
                           StrVal("ESC[36m5432ESC[0m")>>

C5_Witness ==
    /\ fnCall.fn = "formatArgs"
    /\ fnCall.names = <<"ip", "port", "">>
    /\ fnCall.values = <<StrVal("1.2.3.4"), IntVal("443"), IntVal("5432")>>
    /\ fnRet # NoCall
    /\ Len(fnRet.val) = 3

RECURSIVE LeadingNL(_)
\* the number of line breaks a prefix starts with
LeadingNL(p) == IF p = <<>> \/ Head(p) # NL THEN 0 ELSE 1 + LeadingNL(Tail(p))

\* C6: the line of a sequential invocation starts with exactly one blank
\* line if the invocation is the first or begins 2 seconds or more after the
\* one before it, and with none otherwise, with or without caller
\* information.
C6_BlankLineIffGap ==
    last.outcome = "returned"
    => LeadingNL(logTail.prefix)
          = IF prevAt = -1 \/ last.at - prevAt >= GroupSeconds THEN 1 ELSE 0

\* C7: of concurrent invocations, each one whose open succeeded appends its
\* line: no line is lost to a handle that is already closed.
C7_NoLineLost ==
    \A t \in Threads : th[t].pc \in {"close", "done"} => ~th[t].lost

\* C8: in a sequential run no handle of the log file is open between
\* invocations, and an invocation that returned wrote its one line through
\* the handle it opened itself, while that handle was open.
C8_OwnHandleOpenedAndClosed ==
    /\ open = {}
    /\ last.outcome = "returned" =>
          /\ last.wroteTo = last.fd
          /\ last.wroteOpen
          /\ logLen = last.lenBefore + 1
          /\ nextFd = last.fd + 1

C8_Witness ==
    /\ calls = 2
    /\ last.outcome = "returned"
    /\ last.fd = 2
    /\ logLen = 2

\* the name the classification of C9 gives a node
Classified(arg) ==
    IF arg.kind = "Ident" THEN (IF arg.obj = "Var" THEN arg.name ELSE "")
    ELSE IF arg.kind \in CompoundKinds THEN Fprint(arg)
    ELSE ""

\* C9: argName returns a string for every argument node without aborting:
\* the name of an identifier bound to a variable, the printed text of a
\* compound expression, "" for anything else, an identifier without a
\* resolved object included.
C9_ArgNameNeverAborts ==
    (fnCall.fn = "argName" /\ fnRet # NoCall)
    => /\ ~fnRet.panic
       /\ fnRet.val = Classified(fnCall.arg)

====
